---- MODULE Spec2Model ----
(***************************************************************************)
(* The WebSocket relay of SR Logistics (registerRoutes, wss.on             *)
(* 'connection'): the wsClients registry, the async ws.on('message')       *)
(* handler with its storage calls as suspension points, the close/error    *)
(* events, and the storage layer (MemStorage semantics, any call may       *)
(* throw as DatabaseStorage calls can).                                    *)
(***************************************************************************)
EXTENDS Integers, Sequences, FiniteSets, TLC

\* ---------------------------------------------------------------- bounds
MaxClients == 2
MaxMsgs == 2
MaxSockets == 4
MaxTimers == 3
MaxReqs == 4

Clients == 1..MaxClients
MsgIds == 1..MaxMsgs

\* ------------------------------------------------------- sample data ids
Drivers == {"d1", "d2"}
SocketIds == 1..MaxSockets
TimerIds == 1..MaxTimers
ReqIds == 1..MaxReqs
TripIds == {"t1"}
VehicleIds == {"v1"}

NoTrip ==
  [id |-> "", driverId |-> "", vehicleId |-> "", status |-> "",
   startTime |-> 0, endTime |-> 0]

\* a request that has not arrived
NoReq == [pc |-> "none", email |-> "", code |-> 0]

NoRow == [id |-> 0, tripId |-> "", latitude |-> "", longitude |-> ""]

\* trip1 of initSampleData: assigned to the sample driver, on vehicle2
SampleTrip ==
  [id |-> "t1", driverId |-> "d1", vehicleId |-> "v1", status |-> "assigned",
   startTime |-> 0, endTime |-> 0]

\* ---------------------------------------------------------------- frames
\* An inbound frame: json says whether JSON.parse accepts the text; type is
\* data.type; payload says whether data.payload is truthy; fields are the
\* payload's properties that are present (an absent one reads as undefined).
MkFrame(json, type, payload, fields, tripId, driverId, status) ==
  [json |-> json, type |-> type, payload |-> payload, fields |-> fields,
   tripId |-> tripId, driverId |-> driverId, status |-> status,
   latitude |-> 12, longitude |-> 77]

LocFields == {"tripId", "latitude", "longitude", "driverId"}
StatusFields == {"tripId", "status", "driverId"}
WireStatuses == {"in_progress", "completed", "cancelled"}

Frames ==
  {MkFrame(FALSE, "", FALSE, {}, "", "", ""),
   MkFrame(TRUE, "ping", FALSE, {}, "", "", ""),
   MkFrame(TRUE, "subscribe", TRUE, {}, "", "", ""),
   MkFrame(TRUE, "location_update", FALSE, {}, "", "", ""),
   MkFrame(TRUE, "trip_status_update", FALSE, {}, "", "", "")}
  \cup {MkFrame(TRUE, "location_update", TRUE, LocFields, "t1", d, "") : d \in Drivers}
  \cup {MkFrame(TRUE, "location_update", TRUE, LocFields \ {x}, "t1", "d1", "") :
          x \in {"tripId", "latitude"}}
  \cup {MkFrame(TRUE, "trip_status_update", TRUE, StatusFields, "t1", "d1", s) :
          s \in WireStatuses}
  \cup {MkFrame(TRUE, "trip_status_update", TRUE, StatusFields, "t1", "d2", "in_progress"),
        MkFrame(TRUE, "trip_status_update", TRUE, StatusFields \ {"status"}, "t1", "d1", "")}

\* the value of payload property x of frame f after destructuring
Has(f, x) == x \in f.fields

\* Number.prototype.toString on the coordinates the frames carry
ToStr(n) == CASE n = 12 -> "12" [] n = 77 -> "77" [] OTHER -> "0"

VARIABLES
  trips,       \* storage: trip id -> Trip, NoTrip when absent
  vehicles,    \* storage: vehicle id -> status
  users,       \* storage: user id -> status
  locations,   \* storage: set of location rows
  nextLoc,     \* rows created so far (each row's id is fresh)
  wsClients,   \* the registry Map, as the sequence of its keys in insertion order
  readyState,  \* client -> "NONE" | "OPEN" | "CLOSED"
  sendFault,   \* client -> TRUE when its send() throws
  sent,        \* client -> sequence of messages handed to its send()
  handlers,    \* message id -> the state of that message's async handler
  nmsgs,       \* inbound frames received so far
  hist,        \* message id -> what its handler has done (history)
  events       \* global order of primary persists and broadcasts (history)

relayVars == <<trips, vehicles, users, locations, nextLoc, wsClients,
               readyState, sendFault, sent, handlers, nmsgs, hist, events>>

\* the useWebSocket hook of one browser component
VARIABLES
  mounted,         \* "initial" | "mounted" | "unmounted": the component's life
  sockets,         \* socket id -> "NONE" | "CONNECTING" | "OPEN" | "CLOSING" | "CLOSED"
  nsockets,        \* WebSockets created so far
  ws,              \* ws.current: a socket id, 0 for null
  timers,          \* timer id -> "NONE" | "PENDING" | "FIRED" | "CLEARED"
  ntimers,         \* setTimeout calls so far
  reconnectTimer,  \* reconnectTimer.current: a timer id, 0 for null
  isConnected      \* the isConnected state

hookVars == <<mounted, sockets, nsockets, ws, timers, ntimers, reconnectTimer, isConnected>>

\* the users behind POST /api/auth/register
VARIABLES
  accounts,   \* MemStorage.users: the set of stored users
  reqs        \* request id -> [pc, email, code]: the handler and its response

registerVars == <<accounts, reqs>>

vars == <<relayVars, hookVars, registerVars>>

\* what a step of one part leaves alone in the others
RelayIdle == UNCHANGED relayVars
HookIdle == UNCHANGED hookVars
RegisterIdle == UNCHANGED registerVars

storageVars == <<trips, vehicles, users, locations, nextLoc>>

\* --------------------------------------------------------------- storage
\* mutant: the trip as it was when the server started
GetTripCached(ts, id) == IF id \in TripIds THEN SampleTrip ELSE NoTrip

\* MemStorage.getTrip: this.trips.get(id)
GetTrip(ts, id) == IF id \in TripIds THEN ts[id] ELSE NoTrip

\* MemStorage.updateTrip: { ...trip, ...updates, status: updates.status || trip.status };
\* upd.keys are the properties the updates object carries
UpdateTripRec(trip, upd) ==
  [trip EXCEPT
     !.status = IF "status" \in upd.keys /\ upd.status # "" THEN upd.status ELSE @,
     !.driverId = IF "driverId" \in upd.keys THEN upd.driverId ELSE @,
     !.startTime = IF "startTime" \in upd.keys THEN upd.startTime ELSE @,
     !.endTime = IF "endTime" \in upd.keys THEN upd.endTime ELSE @]

\* the updateData object the trip_status_update branch builds
UpdateData(status, now) ==
  [keys |-> {"status"} \cup (IF status = "in_progress" THEN {"startTime"} ELSE {})
                       \cup (IF status = "completed" THEN {"endTime"} ELSE {}),
   status |-> status, driverId |-> "", startTime |-> now, endTime |-> now]

\* mutant: a row is keyed by what it says, a repeated position is one row
NewLocationDedup(n, tripId, lat, lon) ==
  [id |-> 1, tripId |-> tripId, latitude |-> lat, longitude |-> lon]

\* MemStorage.createLocation: a row with a fresh id
NewLocation(n, tripId, lat, lon) ==
  [id |-> n + 1, tripId |-> tripId, latitude |-> lat, longitude |-> lon]

\* storage.deleteLocationsByTrip(tripId): the rows of other trips remain
DeleteLocationsByTrip(ls, tripId) == {l \in ls : l.tripId # tripId}

\* mutant: the vehicle is released whatever the new status is
VehicleStatusAvailable(status) == "available"

\* the status the secondary updates give the vehicle and the driver
VehicleStatusFor(status) == IF status = "in_progress" THEN "in_use" ELSE "available"
UserStatusFor(status) == IF status = "in_progress" THEN "on_trip" ELSE "available"

\* ------------------------------------------------------------- messages
Msg(type, m, text, row, trip) ==
  [type |-> type, of |-> m, text |-> text, row |-> row, trip |-> trip]

ErrorMsg(m, text) == Msg("error", m, text, NoRow, NoTrip)
PongMsg(m) == Msg("pong", m, "", NoRow, NoTrip)
WelcomeMsg == Msg("connected", 0, "Connected to SR Logistics location tracking", NoRow, NoTrip)
LocationMsg(m, row) == Msg("location_update", m, "", row, NoTrip)
StatusMsg(m, trip) == Msg("trip_status_update", m, "", NoRow, trip)

\* the value a payload property destructures to ("" stands for undefined)
Field(f, x) == IF Has(f, x) THEN f[x] ELSE ""

\* mutant: the ownership comparison is dropped
AuthorizedAnyDriver(trip, driverId) == TRUE

\* trip.driverId !== driverId is the denial
Authorized(trip, driverId) == trip.driverId = driverId

\* mutant: the readyState test is dropped
IsOpenAlways(rs, c) == TRUE

\* client.readyState === WebSocket.OPEN
IsOpen(rs, c) == rs[c] = "OPEN"

\* mutant: the filter is inverted, every other key goes
RemoveOthers(reg, c) == SelectSeq(reg, LAMBDA x : x = c)

\* Map.delete on the registry
Remove(reg, c) == SelectSeq(reg, LAMBDA x : x # c)

\* ws.send(JSON.stringify(msg)) on connection c; a throwing send hands over nothing
Send(out, c, msg) == IF sendFault[c] THEN out ELSE [out EXCEPT ![c] = Append(@, msg)]

\* wsClients.forEach((client, id) => OPEN ? client.send(..) : wsClients.delete(id)):
\* ids are the keys still to visit; a throwing send ends the iteration. tried are
\* the connections whose send() was called, failed those it could not send to.
\* mutant: the iteration stops after the first key
FanoutFirstOnly(ids, reg, out, msg) ==
  IF ids = <<>> \/ ~IsOpen(readyState, Head(ids)) \/ sendFault[Head(ids)]
  THEN [reg |-> reg, out |-> out, threw |-> FALSE, tried |-> {}, failed |-> {}]
  ELSE [reg |-> reg, out |-> Send(out, Head(ids), msg), threw |-> FALSE,
        tried |-> {Head(ids)}, failed |-> {}]

RECURSIVE Fanout(_, _, _, _)
Fanout(ids, reg, out, msg) ==
  IF ids = <<>>
  THEN [reg |-> reg, out |-> out, threw |-> FALSE, tried |-> {}, failed |-> {}]
  ELSE LET c == Head(ids) IN
       IF IsOpen(readyState, c)
       THEN IF sendFault[c]
            THEN [reg |-> reg, out |-> out, threw |-> TRUE, tried |-> {c}, failed |-> {c}]
            ELSE LET r == Fanout(Tail(ids), reg, Send(out, c, msg), msg)
                 IN [r EXCEPT !.tried = @ \cup {c}]
       ELSE LET r == Fanout(Tail(ids), Remove(reg, c), out, msg)
            IN [r EXCEPT !.failed = @ \cup {c}]

Broadcast(msg) == Fanout(wsClients, wsClients, sent, msg)

\* new Date(): time advances with every inbound frame
Now == nmsgs + 1

\* ------------------------------------------------------------- handlers
NoHandler ==
  [pc |-> "none", ret |-> FALSE, exc |-> FALSE, conn |-> 0,
   frame |-> MkFrame(FALSE, "", FALSE, {}, "", "", ""),
   trip |-> NoTrip, now |-> 0, updated |-> NoTrip, row |-> NoRow]

NoHist ==
  [read |-> FALSE, readTrip |-> NoTrip, rows |-> 0, wrote |-> {}, threw |-> {},
   bcast |-> FALSE, live |-> {}, tried |-> {}, failed |-> {}]

Call(h, op) == [h EXCEPT !.pc = op, !.ret = FALSE, !.exc = FALSE]
Finish(h) == [h EXCEPT !.pc = "done", !.ret = FALSE, !.exc = FALSE]

Init ==
  /\ trips = [t \in TripIds |-> SampleTrip]
  /\ vehicles = [v \in VehicleIds |-> "in_use"]
  /\ users = [d \in Drivers |-> "available"]
  /\ locations = {}
  /\ nextLoc = 0
  /\ wsClients = <<>>
  /\ readyState = [c \in Clients |-> "NONE"]
  /\ sendFault = [c \in Clients |-> FALSE]
  /\ sent = [c \in Clients |-> <<>>]
  /\ handlers = [m \in MsgIds |-> NoHandler]
  /\ nmsgs = 0
  /\ hist = [m \in MsgIds |-> NoHist]
  /\ events = <<>>
  /\ mounted = "initial"
  /\ sockets = [s \in SocketIds |-> "NONE"]
  /\ nsockets = 0
  /\ ws = 0
  /\ timers = [t \in TimerIds |-> "NONE"]
  /\ ntimers = 0
  /\ reconnectTimer = 0
  /\ isConnected = FALSE
  /\ accounts = {}
  /\ reqs = [r \in ReqIds |-> NoReq]

\* wss.on('connection'): a fresh clientId is registered and welcomed
Connect(c) ==
  /\ readyState[c] = "NONE"
  /\ \A d \in Clients : d < c => readyState[d] # "NONE"
  /\ wsClients' = Append(wsClients, c)
  /\ readyState' = [readyState EXCEPT ![c] = "OPEN"]
  /\ sent' = Send(sent, c, WelcomeMsg)
  /\ UNCHANGED <<storageVars, sendFault, handlers, nmsgs, hist, events>>
  /\ HookIdle /\ RegisterIdle

\* the socket leaves OPEN (peer closed, network error); its events follow
SocketCloses(c) ==
  /\ readyState[c] = "OPEN"
  /\ readyState' = [readyState EXCEPT ![c] = "CLOSED"]
  /\ UNCHANGED <<storageVars, wsClients, sendFault, sent, handlers, nmsgs, hist, events>>
  /\ HookIdle /\ RegisterIdle

\* ws.on('error'): wsClients.delete(clientId)
OnError(c) ==
  /\ readyState[c] = "CLOSED"
  /\ wsClients' = Remove(wsClients, c)
  /\ UNCHANGED <<storageVars, readyState, sendFault, sent, handlers, nmsgs, hist, events>>
  /\ HookIdle /\ RegisterIdle

\* ws.on('close'): wsClients.delete(clientId)
OnClose(c) ==
  /\ readyState[c] = "CLOSED"
  /\ wsClients' = Remove(wsClients, c)
  /\ UNCHANGED <<storageVars, readyState, sendFault, sent, handlers, nmsgs, hist, events>>
  /\ HookIdle /\ RegisterIdle

\* the keys of the registry
Registered == {wsClients[i] : i \in 1..Len(wsClients)}

\* ws.send(...) of a reply to the originating connection
ReplyTo(h, msg) == Send(sent, h.conn, msg)

\* mutant: the outer catch only logs
OuterCatchSilent(h, m) == sent

\* the outer catch: ws.send({ type: 'error', message: 'Invalid message format' })
OuterCatch(h, m) == ReplyTo(h, ErrorMsg(m, "Invalid message format"))

\* mutant: the pong goes to every registered connection
PingReplyAll(h, m) == Broadcast(PongMsg(m)).out

\* the ping branch: ws.send({ type: 'pong' })
PingReply(h, m) == ReplyTo(h, PongMsg(m))

\* ws.on('message') up to its first suspension point: JSON.parse, then the
\* dispatch on data.type; the two update branches call storage.getTrip and wait
Receive(c, f) ==
  /\ readyState[c] = "OPEN"
  /\ nmsgs < MaxMsgs
  /\ LET m == nmsgs + 1
         h == [NoHandler EXCEPT !.conn = c, !.frame = f]
     IN /\ nmsgs' = m
        /\ IF ~f.json
           THEN /\ sent' = OuterCatch(h, m)
                /\ handlers' = [handlers EXCEPT ![m] = Finish(h)]
           ELSE IF f.type = "ping"
           THEN /\ sent' = PingReply(h, m)
                /\ handlers' = [handlers EXCEPT ![m] = Finish(h)]
           ELSE IF f.type \in {"location_update", "trip_status_update"} /\ f.payload
           THEN /\ sent' = sent
                /\ handlers' = [handlers EXCEPT ![m] = Call(h, "getTrip")]
           ELSE /\ sent' = sent
                /\ handlers' = [handlers EXCEPT ![m] = Finish(h)]
  /\ UNCHANGED <<storageVars, wsClients, readyState, sendFault, hist, events>>
  /\ HookIdle /\ RegisterIdle

StorageCalls ==
  {"getTrip", "createLocation", "updateTrip", "updateVehicle", "updateUser",
   "deleteLocationsByTrip"}

Pending(m) == handlers[m].pc \in StorageCalls /\ ~handlers[m].ret
Returned(m) == handlers[m].pc \in StorageCalls /\ handlers[m].ret

\* the awaited storage call rejects (a database error): no effect on the data
StorageThrows(m) ==
  /\ Pending(m)
  /\ handlers' = [handlers EXCEPT ![m].ret = TRUE, ![m].exc = TRUE]
  /\ hist' = [hist EXCEPT ![m].threw = @ \cup {handlers[m].pc}]
  /\ UNCHANGED <<storageVars, wsClients, readyState, sendFault, sent, nmsgs, events>>
  /\ HookIdle /\ RegisterIdle

\* storage.getTrip(tripId) takes its read
GetTripRuns(m) ==
  /\ Pending(m) /\ handlers[m].pc = "getTrip"
  /\ LET t == GetTrip(trips, Field(handlers[m].frame, "tripId"))
     IN /\ handlers' = [handlers EXCEPT ![m].ret = TRUE, ![m].trip = t]
        /\ hist' = [hist EXCEPT ![m].read = TRUE, ![m].readTrip = t]
  /\ UNCHANGED <<storageVars, wsClients, readyState, sendFault, sent, nmsgs, events>>
  /\ HookIdle /\ RegisterIdle

\* storage.createLocation(validatedLocation) inserts its row
CreateLocationRuns(m) ==
  /\ Pending(m) /\ handlers[m].pc = "createLocation"
  /\ LET f == handlers[m].frame
         row == NewLocation(nextLoc, f.tripId, ToStr(f.latitude), ToStr(f.longitude))
     IN /\ locations' = locations \cup {row}
        /\ nextLoc' = nextLoc + 1
        /\ handlers' = [handlers EXCEPT ![m].ret = TRUE, ![m].row = row]
        /\ hist' = [hist EXCEPT ![m].rows = @ + 1]
        /\ events' = Append(events, <<m, "persist">>)
  /\ UNCHANGED <<trips, vehicles, users, wsClients, readyState, sendFault, sent, nmsgs>>
  /\ HookIdle /\ RegisterIdle

\* storage.updateTrip(tripId, updateData) writes the trip; undefined when it is gone
UpdateTripRuns(m) ==
  /\ Pending(m) /\ handlers[m].pc = "updateTrip"
  /\ LET f == handlers[m].frame
         old == GetTrip(trips, f.tripId)
         new == UpdateTripRec(old, UpdateData(Field(f, "status"), handlers[m].now))
     IN IF old = NoTrip
        THEN /\ handlers' = [handlers EXCEPT ![m].ret = TRUE, ![m].updated = NoTrip]
             /\ UNCHANGED <<trips, hist, events>>
        ELSE /\ trips' = [trips EXCEPT ![f.tripId] = new]
             /\ handlers' = [handlers EXCEPT ![m].ret = TRUE, ![m].updated = new]
             /\ hist' = [hist EXCEPT ![m].wrote = @ \cup {"trip"}]
             /\ events' = Append(events, <<m, "persist">>)
  /\ UNCHANGED <<vehicles, users, locations, nextLoc, wsClients, readyState,
                 sendFault, sent, nmsgs>>
  /\ HookIdle /\ RegisterIdle

\* storage.updateVehicle(updatedTrip.vehicleId, { status })
UpdateVehicleRuns(m) ==
  /\ Pending(m) /\ handlers[m].pc = "updateVehicle"
  /\ LET v == handlers[m].updated.vehicleId
     IN /\ vehicles' = [vehicles EXCEPT ![v] = VehicleStatusFor(handlers[m].frame.status)]
        /\ handlers' = [handlers EXCEPT ![m].ret = TRUE]
        /\ hist' = [hist EXCEPT ![m].wrote = @ \cup {"vehicle"}]
  /\ UNCHANGED <<trips, users, locations, nextLoc, wsClients, readyState,
                 sendFault, sent, nmsgs, events>>
  /\ HookIdle /\ RegisterIdle

\* storage.updateUser(updatedTrip.driverId, { status })
UpdateUserRuns(m) ==
  /\ Pending(m) /\ handlers[m].pc = "updateUser"
  /\ LET d == handlers[m].updated.driverId
     IN /\ users' = [users EXCEPT ![d] = UserStatusFor(handlers[m].frame.status)]
        /\ handlers' = [handlers EXCEPT ![m].ret = TRUE]
        /\ hist' = [hist EXCEPT ![m].wrote = @ \cup {"user"}]
  /\ UNCHANGED <<trips, vehicles, locations, nextLoc, wsClients, readyState,
                 sendFault, sent, nmsgs, events>>
  /\ HookIdle /\ RegisterIdle

\* storage.deleteLocationsByTrip(updatedTrip.id)
DeleteLocationsRuns(m) ==
  /\ Pending(m) /\ handlers[m].pc = "deleteLocationsByTrip"
  /\ locations' = DeleteLocationsByTrip(locations, handlers[m].updated.id)
  /\ handlers' = [handlers EXCEPT ![m].ret = TRUE]
  /\ hist' = [hist EXCEPT ![m].wrote = @ \cup {"locations"}]
  /\ UNCHANGED <<trips, vehicles, users, nextLoc, wsClients, readyState,
                 sendFault, sent, nmsgs, events>>
  /\ HookIdle /\ RegisterIdle

\* mutant: a handler whose own connection has closed gives up before the broadcast
BroadcastByIfSenderOpen(m, msg, text) ==
  LET r == Broadcast(msg)
      h == handlers[m]
  IN IF readyState[h.conn] # "OPEN"
     THEN /\ handlers' = [handlers EXCEPT ![m] = Finish(h)]
          /\ UNCHANGED <<sent, wsClients, hist, events>>
     ELSE /\ wsClients' = r.reg
          /\ sent' = r.out
          /\ hist' = [hist EXCEPT ![m].bcast = TRUE,
                                  ![m].live = {c \in Registered : readyState[c] = "OPEN"},
                                  ![m].tried = r.tried,
                                  ![m].failed = r.failed]
          /\ events' = Append(events, <<m, "broadcast">>)
          /\ handlers' = [handlers EXCEPT ![m] = Finish(h)]

\* the broadcast of msg by handler m, inside the try whose catch replies text:
\* a send that throws leaves the loop and the catch replies to the sender
BroadcastBy(m, msg, text) ==
  LET r == Broadcast(msg)
      h == handlers[m]
  IN /\ wsClients' = r.reg
     /\ sent' = IF r.threw THEN Send(r.out, h.conn, ErrorMsg(m, text)) ELSE r.out
     /\ hist' = [hist EXCEPT ![m].bcast = TRUE,
                             ![m].live = {c \in Registered : readyState[c] = "OPEN"},
                             ![m].tried = r.tried,
                             ![m].failed = r.failed]
     /\ events' = Append(events, <<m, "broadcast">>)
     /\ handlers' = [handlers EXCEPT ![m] = Finish(h)]

\* mutant: the reply is sent a second time by the outer catch
ReplyTwiceAndFinish(m, msg) ==
  /\ sent' = Send(ReplyTo(handlers[m], msg), handlers[m].conn, msg)
  /\ handlers' = [handlers EXCEPT ![m] = Finish(handlers[m])]
  /\ UNCHANGED <<wsClients, hist, events>>

\* a reply that ends the handler
ReplyAndFinish(m, msg) ==
  /\ sent' = ReplyTo(handlers[m], msg)
  /\ handlers' = [handlers EXCEPT ![m] = Finish(handlers[m])]
  /\ UNCHANGED <<wsClients, hist, events>>

\* mutant: positions are taken only for a trip that is in progress
LocationAfterGetTripActiveOnly(m) ==
  /\ Returned(m) /\ handlers[m].pc = "getTrip"
  /\ handlers[m].frame.type = "location_update"
  /\ LET h == handlers[m]
         f == h.frame
     IN IF h.exc
        THEN ReplyAndFinish(m, ErrorMsg(m, "Invalid message format"))
        ELSE IF h.trip = NoTrip
        THEN ReplyAndFinish(m, ErrorMsg(m, "Trip not found"))
        ELSE IF ~Authorized(h.trip, Field(f, "driverId")) \/ h.trip.status # "in_progress"
        THEN ReplyAndFinish(m, ErrorMsg(m, "Unauthorized: You can only update your own trips"))
        ELSE IF ~Has(f, "latitude") \/ ~Has(f, "longitude")
        THEN ReplyAndFinish(m, ErrorMsg(m, "Failed to save location update"))
        ELSE /\ handlers' = [handlers EXCEPT ![m] = Call(h, "createLocation")]
             /\ UNCHANGED <<sent, wsClients, hist, events>>
  /\ UNCHANGED <<storageVars, readyState, sendFault, nmsgs>>
  /\ HookIdle /\ RegisterIdle

\* location_update after await storage.getTrip: the two denials, then
\* latitude.toString() / longitude.toString() and storage.createLocation
LocationAfterGetTrip(m) ==
  /\ Returned(m) /\ handlers[m].pc = "getTrip"
  /\ handlers[m].frame.type = "location_update"
  /\ LET h == handlers[m]
         f == h.frame
     IN IF h.exc
        THEN ReplyAndFinish(m, ErrorMsg(m, "Invalid message format"))
        ELSE IF h.trip = NoTrip
        THEN ReplyAndFinish(m, ErrorMsg(m, "Trip not found"))
        ELSE IF ~Authorized(h.trip, Field(f, "driverId"))
        THEN ReplyAndFinish(m, ErrorMsg(m, "Unauthorized: You can only update your own trips"))
        ELSE IF ~Has(f, "latitude") \/ ~Has(f, "longitude")
        THEN ReplyAndFinish(m, ErrorMsg(m, "Failed to save location update"))
        ELSE /\ handlers' = [handlers EXCEPT ![m] = Call(h, "createLocation")]
             /\ UNCHANGED <<sent, wsClients, hist, events>>
  /\ UNCHANGED <<storageVars, readyState, sendFault, nmsgs>>
  /\ HookIdle /\ RegisterIdle

\* mutant: the row is broadcast although createLocation rejected
LocationAfterCreateNoCatch(m) ==
  /\ Returned(m) /\ handlers[m].pc = "createLocation"
  /\ BroadcastBy(m, LocationMsg(m, handlers[m].row), "Failed to save location update")
  /\ UNCHANGED <<storageVars, readyState, sendFault, nmsgs>>
  /\ HookIdle /\ RegisterIdle

\* location_update after await storage.createLocation: broadcast, or the catch
LocationAfterCreate(m) ==
  /\ Returned(m) /\ handlers[m].pc = "createLocation"
  /\ IF handlers[m].exc
     THEN ReplyAndFinish(m, ErrorMsg(m, "Failed to save location update"))
     ELSE BroadcastBy(m, LocationMsg(m, handlers[m].row), "Failed to save location update")
  /\ UNCHANGED <<storageVars, readyState, sendFault, nmsgs>>
  /\ HookIdle /\ RegisterIdle

\* trip_status_update after await storage.getTrip: the two denials, then
\* updateData with new Date() and storage.updateTrip
StatusAfterGetTrip(m) ==
  /\ Returned(m) /\ handlers[m].pc = "getTrip"
  /\ handlers[m].frame.type = "trip_status_update"
  /\ LET h == handlers[m]
         f == h.frame
     IN IF h.exc
        THEN ReplyAndFinish(m, ErrorMsg(m, "Invalid message format"))
        ELSE IF h.trip = NoTrip
        THEN ReplyAndFinish(m, ErrorMsg(m, "Trip not found"))
        ELSE IF ~Authorized(h.trip, Field(f, "driverId"))
        THEN ReplyAndFinish(m, ErrorMsg(m, "Unauthorized: You can only update your own trips"))
        ELSE /\ handlers' = [handlers EXCEPT ![m] = [Call(h, "updateTrip") EXCEPT !.now = Now]]
             /\ UNCHANGED <<sent, wsClients, hist, events>>
  /\ UNCHANGED <<storageVars, readyState, sendFault, nmsgs>>
  /\ HookIdle /\ RegisterIdle

\* mutant: only a completed trip has its rows cleaned up
NextSideEffectCompletedOnly(op, status) ==
  IF op = "updateTrip" /\ status \in {"in_progress", "completed", "cancelled"}
  THEN "updateVehicle"
  ELSE IF op = "updateVehicle" THEN "updateUser"
  ELSE IF op = "updateUser" /\ status = "completed"
  THEN "deleteLocationsByTrip"
  ELSE ""

\* mutant: the driver is updated before the vehicle
NextSideEffectUserFirst(op, status) ==
  IF op = "updateTrip" /\ status \in {"in_progress", "completed", "cancelled"}
  THEN "updateUser"
  ELSE IF op = "updateUser" THEN "updateVehicle"
  ELSE IF op = "updateVehicle" /\ status \in {"completed", "cancelled"}
  THEN "deleteLocationsByTrip"
  ELSE ""

\* mutant: the location rows are left in place
NextSideEffectNoCleanup(op, status) ==
  IF op = "updateTrip" /\ status \in {"in_progress", "completed", "cancelled"}
  THEN "updateVehicle"
  ELSE IF op = "updateVehicle" THEN "updateUser"
  ELSE ""

\* the secondary update that follows call op for the status the frame carries,
\* "" when the inner try is through
NextSideEffect(op, status) ==
  IF op = "updateTrip" /\ status \in {"in_progress", "completed", "cancelled"}
  THEN "updateVehicle"
  ELSE IF op = "updateVehicle" THEN "updateUser"
  ELSE IF op = "updateUser" /\ status \in {"completed", "cancelled"}
  THEN "deleteLocationsByTrip"
  ELSE ""

\* mutant: no inner try, a failing secondary update reaches the tripError catch
StatusAfterUpdateNoInnerTry(m) ==
  /\ Returned(m)
  /\ handlers[m].pc \in {"updateTrip", "updateVehicle", "updateUser", "deleteLocationsByTrip"}
  /\ LET h == handlers[m]
         nxt == NextSideEffect(h.pc, Field(h.frame, "status"))
     IN IF h.exc
        THEN ReplyAndFinish(m, ErrorMsg(m, "Failed to update trip status"))
        ELSE IF h.pc = "updateTrip" /\ h.updated = NoTrip
        THEN /\ handlers' = [handlers EXCEPT ![m] = Finish(h)]
             /\ UNCHANGED <<sent, wsClients, hist, events>>
        ELSE IF nxt # ""
        THEN /\ handlers' = [handlers EXCEPT ![m] = Call(h, nxt)]
             /\ UNCHANGED <<sent, wsClients, hist, events>>
        ELSE BroadcastBy(m, StatusMsg(m, h.updated), "Failed to update trip status")
  /\ UNCHANGED <<storageVars, readyState, sendFault, nmsgs>>
  /\ HookIdle /\ RegisterIdle

\* trip_status_update after await storage.updateTrip and after each awaited
\* secondary update: the next secondary update, or (inner try finished or
\* caught) the broadcast of updatedTrip
StatusAfterUpdate(m) ==
  /\ Returned(m)
  /\ handlers[m].pc \in {"updateTrip", "updateVehicle", "updateUser", "deleteLocationsByTrip"}
  /\ LET h == handlers[m]
         nxt == NextSideEffect(h.pc, Field(h.frame, "status"))
     IN IF h.pc = "updateTrip" /\ h.exc
        THEN ReplyAndFinish(m, ErrorMsg(m, "Failed to update trip status"))
        ELSE IF h.pc = "updateTrip" /\ h.updated = NoTrip
        THEN /\ handlers' = [handlers EXCEPT ![m] = Finish(h)]
             /\ UNCHANGED <<sent, wsClients, hist, events>>
        ELSE IF ~h.exc /\ nxt # ""
        THEN /\ handlers' = [handlers EXCEPT ![m] = Call(h, nxt)]
             /\ UNCHANGED <<sent, wsClients, hist, events>>
        ELSE BroadcastBy(m, StatusMsg(m, h.updated), "Failed to update trip status")
  /\ UNCHANGED <<storageVars, readyState, sendFault, nmsgs>>
  /\ HookIdle /\ RegisterIdle

\* PUT /api/trips/:id with { driverId }: the admin reassigns the trip
PutTrip(t, d) ==
  /\ trips[t] # NoTrip
  /\ trips[t].driverId # d
  /\ trips' = [trips EXCEPT ![t] =
                 UpdateTripRec(@, [keys |-> {"driverId"}, status |-> "", driverId |-> d,
                                   startTime |-> 0, endTime |-> 0])]
  /\ UNCHANGED <<vehicles, users, locations, nextLoc, wsClients, readyState,
                 sendFault, sent, handlers, nmsgs, hist, events>>
  /\ HookIdle /\ RegisterIdle

\* DELETE /api/trips/:id
DeleteTrip(t) ==
  /\ trips[t] # NoTrip
  /\ trips' = [trips EXCEPT ![t] = NoTrip]
  /\ UNCHANGED <<vehicles, users, locations, nextLoc, wsClients, readyState,
                 sendFault, sent, handlers, nmsgs, hist, events>>
  /\ HookIdle /\ RegisterIdle

\* a connection whose send() throws although its readyState is OPEN
SendBreaks(c) ==
  /\ readyState[c] = "OPEN"
  /\ ~sendFault[c]
  /\ sendFault' = [sendFault EXCEPT ![c] = TRUE]
  /\ UNCHANGED <<storageVars, wsClients, readyState, sent, handlers, nmsgs, hist, events>>
  /\ HookIdle /\ RegisterIdle

HandlerStep(m) ==
  \/ GetTripRuns(m)
  \/ CreateLocationRuns(m)
  \/ UpdateTripRuns(m)
  \/ UpdateVehicleRuns(m)
  \/ UpdateUserRuns(m)
  \/ DeleteLocationsRuns(m)
  \/ LocationAfterGetTrip(m)
  \/ LocationAfterCreate(m)
  \/ StatusAfterGetTrip(m)
  \/ StatusAfterUpdate(m)

\* the message path: frames arrive on open connections and handlers advance
Relay ==
  \/ \E c \in Clients : Connect(c)
  \/ \E c \in Clients, f \in Frames : Receive(c, f)
  \/ \E m \in MsgIds : HandlerStep(m)

Closing ==
  \/ \E c \in Clients : SocketCloses(c)
  \/ \E c \in Clients : OnError(c)
  \/ \E c \in Clients : OnClose(c)

Admin ==
  \/ \E t \in TripIds, d \in Drivers : PutTrip(t, d)
  \/ \E t \in TripIds : DeleteTrip(t)

\* ------------------------------------------------- client: useWebSocket
\* One instance of the hook. Every WebSocket it creates keeps the handlers
\* connect() gave it, also after ws.current has moved on.
\* clearTimeout(id): a pending timer never fires
ClearTimeout(ts, id) ==
  IF id # 0 /\ ts[id] = "PENDING" THEN [ts EXCEPT ![id] = "CLEARED"] ELSE ts

\* WebSocket.close(): a socket that is connecting or open starts closing
CloseSocket(sk, id) ==
  IF id # 0 /\ sk[id] \in {"CONNECTING", "OPEN"} THEN [sk EXCEPT ![id] = "CLOSING"] ELSE sk

\* connect(): ws.current = new WebSocket(wsUrl), with its four handlers
connect ==
  /\ nsockets < MaxSockets
  /\ nsockets' = nsockets + 1
  /\ ws' = nsockets + 1

\* the cleanup of the effect: clear the reconnect timer, close ws.current
Cleanup(ts, sk) ==
  [timers |-> ClearTimeout(ts, reconnectTimer), sockets |-> CloseSocket(sk, ws)]

\* useEffect(() => { connect(); ... }, [wsUrl]) on mount
Mount ==
  /\ mounted = "initial"
  /\ mounted' = "mounted"
  /\ connect
  /\ sockets' = [sockets EXCEPT ![nsockets + 1] = "CONNECTING"]
  /\ UNCHANGED <<timers, ntimers, reconnectTimer, isConnected>>
  /\ RelayIdle /\ RegisterIdle

\* wsUrl changes: the effect's cleanup runs, then the effect again
UrlChanges ==
  /\ mounted = "mounted"
  /\ connect
  /\ timers' = Cleanup(timers, sockets).timers
  /\ reconnectTimer' = 0
  /\ sockets' = [Cleanup(timers, sockets).sockets EXCEPT ![nsockets + 1] = "CONNECTING"]
  /\ UNCHANGED <<mounted, ntimers, isConnected>>
  /\ RelayIdle /\ RegisterIdle

\* the component unmounts: the effect's cleanup runs
Unmount ==
  /\ mounted = "mounted"
  /\ mounted' = "unmounted"
  /\ timers' = Cleanup(timers, sockets).timers
  /\ reconnectTimer' = 0
  /\ sockets' = Cleanup(timers, sockets).sockets
  /\ ws' = 0
  /\ UNCHANGED <<nsockets, ntimers, isConnected>>
  /\ RelayIdle /\ RegisterIdle

\* onopen of socket s: setIsConnected(true), clear any reconnect timer
OnOpen(s) ==
  /\ sockets[s] = "CONNECTING"
  /\ sockets' = [sockets EXCEPT ![s] = "OPEN"]
  /\ isConnected' = TRUE
  /\ timers' = ClearTimeout(timers, reconnectTimer)
  /\ reconnectTimer' = 0
  /\ UNCHANGED <<mounted, nsockets, ws, ntimers>>
  /\ RelayIdle /\ RegisterIdle

\* onerror of socket s: setIsConnected(false); the close event follows
OnSocketError(s) ==
  /\ sockets[s] \in {"CONNECTING", "OPEN"}
  /\ isConnected
  /\ isConnected' = FALSE
  /\ UNCHANGED <<mounted, sockets, nsockets, ws, timers, ntimers, reconnectTimer>>
  /\ RelayIdle /\ RegisterIdle

\* onclose of socket s (the server went away, the connection failed, or
\* close() was called): setIsConnected(false), and a reconnect timer is set
\* when reconnectTimer.current is null
OnSocketClose(s) ==
  /\ sockets[s] \in {"CONNECTING", "OPEN", "CLOSING"}
  /\ reconnectTimer # 0 \/ ntimers < MaxTimers
  /\ sockets' = [sockets EXCEPT ![s] = "CLOSED"]
  /\ isConnected' = FALSE
  /\ IF reconnectTimer = 0
     THEN /\ ntimers' = ntimers + 1
          /\ timers' = [timers EXCEPT ![ntimers + 1] = "PENDING"]
          /\ reconnectTimer' = ntimers + 1
     ELSE UNCHANGED <<timers, ntimers, reconnectTimer>>
  /\ UNCHANGED <<mounted, nsockets, ws>>
  /\ RelayIdle /\ RegisterIdle

\* the reconnect timer t fires after 3000 ms: connect(); the ref keeps its id
TimerFires(t) ==
  /\ timers[t] = "PENDING"
  /\ connect
  /\ timers' = [timers EXCEPT ![t] = "FIRED"]
  /\ sockets' = [sockets EXCEPT ![nsockets + 1] = "CONNECTING"]
  /\ UNCHANGED <<mounted, ntimers, reconnectTimer, isConnected>>
  /\ RelayIdle /\ RegisterIdle

Hook ==
  \/ Mount
  \/ UrlChanges
  \/ Unmount
  \/ \E s \in SocketIds : OnOpen(s)
  \/ \E s \in SocketIds : OnSocketError(s)
  \/ \E s \in SocketIds : OnSocketClose(s)
  \/ \E t \in TimerIds : TimerFires(t)

\* --------------------------------------------- POST /api/auth/register
\* Concurrent registrations over MemStorage. A MemStorage call runs to its end
\* when it is called, so a handler is suspended only at await bcrypt.hash.
Emails == {"a@srlog", "b@srlog"}

\* the request bodies: valid says whether insertUserSchema.parse accepts it
Bodies == {[valid |-> v, email |-> e] : v \in BOOLEAN, e \in Emails}

\* MemStorage.getUserByEmail: is there a user with this email
GetUserByEmail(us, email) == \E u \in us : u.email = email

\* MemStorage.createUser: a user under a fresh randomUUID
CreateUser(us, email) == us \cup {[id |-> Cardinality(us) + 1, email |-> email]}

\* the handler up to await bcrypt.hash: parse (400), getUserByEmail (409)
Register(r, body) ==
  /\ reqs[r].pc = "none"
  /\ \A q \in ReqIds : q < r => reqs[q].pc # "none"
  /\ reqs' = [reqs EXCEPT ![r] =
       IF ~body.valid THEN [pc |-> "done", email |-> body.email, code |-> 400]
       ELSE IF GetUserByEmail(accounts, body.email)
       THEN [pc |-> "done", email |-> body.email, code |-> 409]
       ELSE [pc |-> "hash", email |-> body.email, code |-> 0]]
  /\ UNCHANGED accounts
  /\ RelayIdle /\ HookIdle

\* bcrypt.hash resolves: storage.createUser, then 201
HashResolves(r) ==
  /\ reqs[r].pc = "hash"
  /\ accounts' = CreateUser(accounts, reqs[r].email)
  /\ reqs' = [reqs EXCEPT ![r].pc = "done", ![r].code = 201]
  /\ RelayIdle /\ HookIdle

Registration ==
  \/ \E r \in ReqIds, body \in Bodies : Register(r, body)
  \/ \E r \in ReqIds : HashResolves(r)

\* the relay and the life cycle of its connections; every storage call succeeds
Next == Relay \/ Closing

Spec == Init /\ [][Next]_vars

\* the relay next to the admin's HTTP requests on the trips
SpecAdmin == Init /\ [][Relay \/ Admin]_vars

\* the relay over a storage whose calls may throw
SpecStorageFault == Init /\ [][Relay \/ \E m \in MsgIds : StorageThrows(m)]_vars

\* the relay with connections whose send() throws
SpecSendFault == Init /\ [][Relay \/ \E c \in Clients : SendBreaks(c)]_vars

\* one useWebSocket hook in a browser
SpecHook == Init /\ [][Hook]_vars

\* concurrent POST /api/auth/register requests
SpecRegister == Init /\ [][Registration]_vars

\* ================================================================ claims
\* indices of the messages handed to connection c on behalf of inbound message m
MsgsOf(c, m) == {i \in 1..Len(sent[c]) : sent[c][i].of = m}
TypedOf(c, m, type) == {i \in MsgsOf(c, m) : sent[c][i].type = type}

Done(m) == handlers[m].pc = "done"
Claimed(m) == Field(handlers[m].frame, "driverId")
ClaimedTrip(m) == Field(handlers[m].frame, "tripId")
IsUpdate(m) ==
  /\ handlers[m].frame.type \in {"location_update", "trip_status_update"}
  /\ handlers[m].frame.payload
BroadcastTypes == {"location_update", "trip_status_update"}

\* the getTrip read of m found no trip, or a trip of another driver
Denied(m) ==
  /\ IsUpdate(m)
  /\ hist[m].read
  /\ (hist[m].readTrip = NoTrip \/ hist[m].readTrip.driverId # Claimed(m))

\* C1: every location_update or trip_status_update message handed to a
\* connection stems from an inbound message whose own getTrip read returned
\* the trip T it names with driverId equal to the driver D it claims; none
\* stems from a message whose check failed or never ran.
C1_BroadcastOnlyAfterOwnAuthorization ==
  \A c \in Clients : \A i \in 1..Len(sent[c]) :
    sent[c][i].type \in BroadcastTypes =>
      LET m == sent[c][i].of IN
        /\ m \in MsgIds
        /\ IsUpdate(m)
        /\ hist[m].read
        /\ hist[m].readTrip # NoTrip
        /\ hist[m].readTrip.id = ClaimedTrip(m)
        /\ hist[m].readTrip.driverId = Claimed(m)
        /\ ~Denied(m)

\* a broadcast went out for a claim of D although the trip has since been
\* reassigned to another driver: the read that authorized it was m's own
C1_Witness ==
  \E c \in Clients : \E i \in 1..Len(sent[c]) :
    /\ sent[c][i].type \in BroadcastTypes
    /\ trips["t1"] # NoTrip
    /\ trips["t1"].driverId # Claimed(sent[c][i].of)

\* C2: a location_update or trip_status_update whose claimed driver differs
\* from the stored trip's driver, or whose trip does not exist, creates no
\* location row, changes no trip, vehicle or user, sends nothing to any
\* connection but the sender, and sends the sender exactly one 'error'.
C2_DeniedMessageOnlyErrorsToSender ==
  \A m \in MsgIds :
    Denied(m) =>
      /\ hist[m].rows = 0
      /\ hist[m].wrote = {}
      /\ ~hist[m].bcast
      /\ \A c \in Clients \ {handlers[m].conn} : MsgsOf(c, m) = {}
      /\ Done(m) => /\ Cardinality(MsgsOf(handlers[m].conn, m)) = 1
                    /\ Cardinality(TypedOf(handlers[m].conn, m, "error")) = 1
      /\ ~Done(m) => MsgsOf(handlers[m].conn, m) = {}

\* both denials have been handled: a missing trip and a foreign driver
C2_Witness ==
  \E m1, m2 \in MsgIds :
    /\ Denied(m1) /\ Done(m1) /\ hist[m1].readTrip = NoTrip
    /\ Denied(m2) /\ Done(m2) /\ hist[m2].readTrip # NoTrip
    /\ handlers[m2].frame.type = "trip_status_update"

\* C3: a location_update that passed the check and whose createLocation
\* succeeded creates exactly one row, and its broadcast hands exactly one
\* 'location_update' message carrying that row to each connection registered
\* and OPEN at broadcast time, the sender included, and none to any other.
C3_LocationBroadcastReachesEveryLiveConnection ==
  \A m \in MsgIds :
    (handlers[m].frame.type = "location_update" /\ hist[m].rows > 0) =>
      /\ hist[m].rows = 1
      /\ ~Denied(m)
      /\ Done(m) =>
           /\ hist[m].bcast
           /\ \A c \in Clients :
                IF c \in hist[m].live
                THEN /\ Cardinality(MsgsOf(c, m)) = 1
                     /\ \A i \in MsgsOf(c, m) :
                          /\ sent[c][i].type = "location_update"
                          /\ sent[c][i].row = handlers[m].row
                          /\ sent[c][i].row.tripId = ClaimedTrip(m)
                ELSE MsgsOf(c, m) = {}

\* a location broadcast reached two live connections, the sender among them,
\* and another one was sent while a registered connection was not OPEN
C3_Witness ==
  \E m1, m2 \in MsgIds :
    /\ handlers[m1].frame.type = "location_update" /\ hist[m1].bcast
    /\ hist[m1].live = Clients
    /\ handlers[m2].frame.type = "location_update" /\ hist[m2].bcast
    /\ hist[m2].failed # {}
    /\ handlers[m2].conn \in hist[m2].live

\* the broadcast of m1 was made before the broadcast of m2
BroadcastBefore(m1, m2) ==
  \E i, j \in 1..Len(events) :
    i < j /\ events[i] = <<m1, "broadcast">> /\ events[j] = <<m2, "broadcast">>

\* C4: a registered connection a broadcast could not send to (not OPEN, or its
\* send threw) is removed from wsClients during that broadcast, and no later
\* broadcast calls its send.
C4_FailedSendIsPruned ==
  /\ \A m \in MsgIds : hist[m].bcast => hist[m].failed \cap Registered = {}
  /\ \A m1, m2 \in MsgIds :
       BroadcastBefore(m1, m2) => hist[m1].failed \cap hist[m2].tried = {}

\* C5: when a broadcast cannot send to some connection, every other live
\* connection still gets the broadcast and the sender gets no 'error' for the
\* mutation that was persisted.
C5_SendFailureNotPropagated ==
  \A m \in MsgIds :
    (hist[m].bcast /\ hist[m].failed # {}) =>
      /\ \A c \in hist[m].live \ hist[m].failed :
           ~sendFault[c] => Cardinality(TypedOf(c, m, handlers[m].frame.type)) = 1
      /\ TypedOf(handlers[m].conn, m, "error") = {}

IsPing(f) == f.json /\ f.type = "ping"

\* C6: a step that receives {type:'ping'} leaves trips, vehicles, users,
\* locations and the registry as they are and hands exactly one {type:'pong'}
\* to the sender and nothing to anyone else, whatever else is in flight; the
\* ping has no later effect.
C6_PingOnlyPongs ==
  /\ [][(nmsgs' # nmsgs /\ IsPing(handlers'[nmsgs'].frame)) =>
          LET m == nmsgs'
              c == handlers'[nmsgs'].conn
          IN /\ UNCHANGED <<trips, vehicles, users, locations, nextLoc, wsClients>>
             /\ sent' = [sent EXCEPT ![c] =
                           Append(@, [type |-> "pong", of |-> m, text |-> "",
                                      row |-> NoRow, trip |-> NoTrip])]
             /\ handlers'[m].pc = "done"]_vars
  /\ [](\A m \in MsgIds :
          IsPing(handlers[m].frame) =>
            /\ hist[m] = NoHist
            /\ \A c \in Clients :
                 Cardinality(MsgsOf(c, m)) = IF c = handlers[m].conn THEN 1 ELSE 0)

\* a ping was answered, right after the welcome, while an earlier message was
\* suspended at a storage call
C6_Witness ==
  \E m1, m2 \in MsgIds :
    /\ m1 < m2
    /\ handlers[m1].pc \in StorageCalls
    /\ IsPing(handlers[m2].frame) /\ Done(m2)
    /\ Len(sent[handlers[m2].conn]) = 2

\* C7: at most one inbound message is in progress at any time.
C7_OneMessageAtATime ==
  Cardinality({m \in MsgIds : handlers[m].pc \in StorageCalls}) <= 1

\* C8: the persists, and the broadcasts, of the messages of one connection
\* happen in the order the messages arrived.
C8_PerConnectionArrivalOrder ==
  \A i, j \in 1..Len(events) :
    (/\ i < j
     /\ events[i][2] = events[j][2]
     /\ handlers[events[i][1]].conn = handlers[events[j][1]].conn)
    => events[i][1] <= events[j][1]

\* a JSON frame of unrecognized type, without payload, or without a required
\* payload field
Malformed(f) ==
  /\ f.json
  /\ \/ f.type \notin {"ping", "location_update", "trip_status_update"}
     \/ f.type = "location_update" /\ (~f.payload \/ ~(LocFields \subseteq f.fields))
     \/ f.type = "trip_status_update" /\ (~f.payload \/ ~(StatusFields \subseteq f.fields))

\* C9: every handled malformed frame gave exactly one 'error' to its sender,
\* nothing to any other connection, no persistence and no broadcast.
C9_MalformedFrameGetsOneError ==
  \A m \in MsgIds :
    (Done(m) /\ Malformed(handlers[m].frame)) =>
      /\ Cardinality(MsgsOf(handlers[m].conn, m)) = 1
      /\ Cardinality(TypedOf(handlers[m].conn, m, "error")) = 1
      /\ \A c \in Clients \ {handlers[m].conn} : MsgsOf(c, m) = {}
      /\ hist[m].rows = 0 /\ hist[m].wrote = {} /\ ~hist[m].bcast

\* C10: a step that receives a frame JSON.parse rejects hands one 'error'
\* ('Invalid message format') to the sender and nothing to anyone else, changes
\* no stored data, and leaves the sender registered and OPEN.
C10_NotJsonOnlyErrorsToSender ==
  [][(nmsgs' # nmsgs /\ ~handlers'[nmsgs'].frame.json) =>
       LET m == nmsgs'
           c == handlers'[nmsgs'].conn
       IN /\ UNCHANGED <<trips, vehicles, users, locations, nextLoc, wsClients, readyState>>
          /\ sent' = [sent EXCEPT ![c] =
                        Append(@, [type |-> "error", of |-> m,
                                   text |-> "Invalid message format",
                                   row |-> NoRow, trip |-> NoTrip])]
          /\ c \in Registered' /\ readyState'[c] = "OPEN"
          /\ handlers'[m].pc = "done"]_vars

\* after its non-JSON frame a connection sent a location_update that was
\* persisted and broadcast back to it
C10_Witness ==
  \E m1, m2 \in MsgIds :
    /\ m1 < m2 /\ handlers[m1].conn = handlers[m2].conn
    /\ ~handlers[m1].frame.json /\ Done(m1)
    /\ handlers[m2].frame.type = "location_update"
    /\ hist[m2].bcast
    /\ TypedOf(handlers[m2].conn, m2, "location_update") # {}

\* this step is the awaited storage call op of handler m running to success
RanOk(m, op) ==
  /\ handlers[m].pc = op
  /\ ~handlers[m].ret
  /\ handlers'[m].ret
  /\ ~handlers'[m].exc

\* the status transitions the trip life cycle names
LegalTransitions ==
  {<<"assigned", "in_progress">>, <<"in_progress", "completed">>,
   <<"assigned", "cancelled">>, <<"in_progress", "cancelled">>}

AuthorizedStatus(m, status) ==
  /\ handlers[m].frame.type = "trip_status_update"
  /\ handlers[m].frame.payload
  /\ Field(handlers[m].frame, "status") = status
  /\ hist[m].read
  /\ hist[m].readTrip # NoTrip
  /\ hist[m].readTrip.driverId = Claimed(m)

\* this step is the broadcast of handler m
Broadcasts(m) == ~hist[m].bcast /\ hist'[m].bcast

\* the connections registered and OPEN in the state a step starts from
Live == {c \in Clients : c \in Registered /\ readyState[c] = "OPEN"}

\* no other message has written a trip, a vehicle or a user
OnlyStatusWriter(m) == \A m2 \in MsgIds \ {m} : hist[m2].wrote = {}

\* the position in events of the primary persist of m, 0 when there is none
PersistAt(m) ==
  IF \E i \in 1..Len(events) : events[i] = <<m, "persist">>
  THEN CHOOSE i \in 1..Len(events) : events[i] = <<m, "persist">>
  ELSE 0

\* every row another message created was stored before m wrote the trip
RowsBefore(m) ==
  \A m2 \in MsgIds \ {m} : hist[m2].rows > 0 => PersistAt(m2) < PersistAt(m)

C13_StartTimeSetOnce ==
  [][\A m \in MsgIds :
       (/\ RanOk(m, "updateTrip")
        /\ Field(handlers[m].frame, "status") = "in_progress"
        /\ trips[ClaimedTrip(m)] # NoTrip
        /\ trips[ClaimedTrip(m)].startTime # 0)
         => trips'[ClaimedTrip(m)].startTime = trips[ClaimedTrip(m)].startTime]_vars

SecondaryCalls == {"updateVehicle", "updateUser", "deleteLocationsByTrip"}

\* updateTrip of m succeeded and one of its secondary updates threw
SecondaryFailed(m) ==
  /\ handlers[m].frame.type = "trip_status_update"
  /\ "trip" \in hist[m].wrote
  /\ hist[m].threw \cap SecondaryCalls # {}

\* C15: when updateVehicle, updateUser or the location cleanup of a
\* trip_status_update fails after its updateTrip succeeded, no later step of
\* the handler touches the trip again (the new status stays persisted), the
\* broadcast of the updated trip is still handed once to every connection
\* registered and OPEN, and no 'error' goes to the sender or anyone else.
C15_SecondaryFailureIsBestEffort ==
  /\ [][\A m \in MsgIds :
          (handlers'[m] # handlers[m] /\ "trip" \in hist[m].wrote) => trips' = trips]_vars
  /\ [](\A m \in MsgIds : SecondaryFailed(m) =>
          /\ handlers[m].updated.status = Field(handlers[m].frame, "status")
          /\ \A c \in Clients : TypedOf(c, m, "error") = {}
          /\ Done(m) =>
               /\ hist[m].bcast
               /\ \A c \in hist[m].live :
                    /\ Cardinality(MsgsOf(c, m)) = 1
                    /\ \A i \in MsgsOf(c, m) :
                         /\ sent[c][i].type = "trip_status_update"
                         /\ sent[c][i].trip = handlers[m].updated)

\* updateVehicle threw, and both connections still got the completed trip
C15_Witness ==
  \E m \in MsgIds :
    /\ SecondaryFailed(m) /\ Done(m)
    /\ "updateVehicle" \in hist[m].threw
    /\ hist[m].live = Clients
    /\ \A c \in Clients : TypedOf(c, m, "trip_status_update") # {}
    /\ trips["t1"].status = "completed"
    /\ vehicles["v1"] = "in_use"

\* the primary mutation of m (createLocation or updateTrip) threw
PrimaryFailed(m) == hist[m].threw \cap {"createLocation", "updateTrip"} # {}

\* C16: when the createLocation of a location_update or the updateTrip of a
\* trip_status_update throws, the message stores no row and writes no trip,
\* vehicle or user, nothing is broadcast and no connection but the sender
\* gets a message; the sender gets exactly one, an 'error', by the time the
\* handler has finished.
C16_PrimaryFailureOnlyErrorsToSender ==
  \A m \in MsgIds : PrimaryFailed(m) =>
    /\ hist[m].rows = 0
    /\ hist[m].wrote = {}
    /\ ~hist[m].bcast
    /\ \A c \in Clients \ {handlers[m].conn} : MsgsOf(c, m) = {}
    /\ Done(m) => /\ Cardinality(MsgsOf(handlers[m].conn, m)) = 1
                  /\ Cardinality(TypedOf(handlers[m].conn, m, "error")) = 1
    /\ ~Done(m) => MsgsOf(handlers[m].conn, m) = {}

\* both primary mutations have failed once, each answered with its error,
\* with a second connection open that got nothing
C16_Witness ==
  \E m1, m2 \in MsgIds :
    /\ "createLocation" \in hist[m1].threw /\ Done(m1)
    /\ "updateTrip" \in hist[m2].threw /\ Done(m2)
    /\ \E i \in MsgsOf(handlers[m1].conn, m1) :
         sent[handlers[m1].conn][i].text = "Failed to save location update"
    /\ \E i \in MsgsOf(handlers[m2].conn, m2) :
         sent[handlers[m2].conn][i].text = "Failed to update trip status"
    /\ \A c \in Clients : readyState[c] = "OPEN"
    /\ trips["t1"] = SampleTrip
    /\ locations = {}

\* the stored trip a message for trip id t is to be checked against
StoredTrip(t) == IF t \in TripIds THEN trips[t] ELSE NoTrip

DenialTexts == {"Trip not found", "Unauthorized: You can only update your own trips"}

\* this step resumes handler m after its getTrip returned
ResumesAfterGetTrip(m) ==
  /\ handlers[m].pc = "getTrip"
  /\ handlers[m].ret /\ ~handlers[m].exc
  /\ handlers'[m] # handlers[m]

\* C17: no authorization is cached: the getTrip of every message returns the
\* trip as it is stored when the call runs, and the message is denied exactly
\* when that trip is missing or its driver differs from the claimed one; so
\* once the trip has gone from D1 to D2, a message claiming D1 is denied and
\* one claiming D2 passes, whatever earlier messages were allowed.
C17_AuthorizationNeverCached ==
  [][\A m \in MsgIds :
       /\ RanOk(m, "getTrip") =>
            /\ handlers'[m].trip = StoredTrip(ClaimedTrip(m))
            /\ hist'[m].readTrip = StoredTrip(ClaimedTrip(m))
       /\ ResumesAfterGetTrip(m) =>
            LET c == handlers[m].conn
                passes == /\ handlers[m].trip # NoTrip
                          /\ handlers[m].trip.driverId = Claimed(m)
                denied == /\ handlers'[m].pc = "done"
                          /\ Len(sent'[c]) = Len(sent[c]) + 1
                          /\ sent'[c][Len(sent'[c])].type = "error"
                          /\ sent'[c][Len(sent'[c])].text \in DenialTexts
            IN passes <=> ~denied]_vars

\* the trip went from d1 to d2: a message claiming d1 was denied against the
\* new driver, and a message claiming d2 was broadcast
C17_Witness ==
  \E m1, m2 \in MsgIds :
    /\ Claimed(m1) = "d1" /\ Denied(m1) /\ Done(m1)
    /\ hist[m1].readTrip.driverId = "d2"
    /\ Claimed(m2) = "d2" /\ hist[m2].bcast
    /\ hist[m2].readTrip.driverId = "d2"

\* m is a location_update whose row was stored
Accepted(m) == handlers[m].frame.type = "location_update" /\ hist[m].rows > 0

\* the broadcasts made for m
BroadcastsOf(m) == {i \in 1..Len(events) : events[i] = <<m, "broadcast">>}

\* C18: location persistence is append-only without deduplication: the
\* createLocation of an accepted location_update adds exactly one row that
\* was not there, no step of a location_update removes or alters a row or
\* changes a trip, vehicle or user, rows of different messages are distinct
\* even for the same position, and a finished accepted message has made
\* exactly one broadcast: k accepted messages give k rows and k broadcasts.
C18_LocationsAppendOnly ==
  /\ [][\A m \in MsgIds :
          (handlers[m].frame.type = "location_update" /\ handlers'[m] # handlers[m]) =>
            /\ locations \subseteq locations'
            /\ UNCHANGED <<trips, vehicles, users>>
            /\ IF RanOk(m, "createLocation")
               THEN /\ Cardinality(locations') = Cardinality(locations) + 1
                    /\ handlers'[m].row \in locations' \ locations
               ELSE locations' = locations]_vars
  /\ [](\A m \in MsgIds : Accepted(m) =>
          /\ hist[m].rows = 1
          /\ hist[m].wrote = {}
          /\ Done(m) => Cardinality(BroadcastsOf(m)) = 1
          /\ \A m2 \in MsgIds \ {m} : Accepted(m2) => handlers[m2].row # handlers[m].row)

\* the same position was reported twice: two rows, two broadcasts
C18_Witness ==
  \E m1, m2 \in MsgIds :
    /\ m1 # m2
    /\ Accepted(m1) /\ Done(m1)
    /\ Accepted(m2) /\ Done(m2)
    /\ handlers[m1].row.latitude = handlers[m2].row.latitude
    /\ handlers[m1].row.longitude = handlers[m2].row.longitude
    /\ Cardinality(locations) = 2
    /\ Cardinality(BroadcastsOf(m1) \cup BroadcastsOf(m2)) = 2

\* the broadcast messages handed to connection c, in order
BroadcastSeq(c) == SelectSeq(sent[c], LAMBDA x : x.type \in BroadcastTypes)

\* the broadcasts made while c was registered and OPEN, in order
BroadcastsFor(c) ==
  SelectSeq(events, LAMBDA e : e[2] = "broadcast" /\ c \in hist[e[1]].live)

\* C19: a broadcast hands the same message to every recipient and fan-outs
\* are not interleaved: each connection has received, in the order the
\* broadcasts were made, one message for every broadcast made while it was
\* registered and OPEN, a message of one broadcast is the same on every
\* connection, and two connections registered and OPEN at every broadcast
\* have received the same sequence.
C19_SameBroadcastsInSameOrder ==
  /\ \A c \in Clients :
       /\ Len(BroadcastSeq(c)) = Len(BroadcastsFor(c))
       /\ \A i \in 1..Len(BroadcastSeq(c)) : BroadcastSeq(c)[i].of = BroadcastsFor(c)[i][1]
  /\ \A c1, c2 \in Clients :
       /\ \A i \in 1..Len(sent[c1]) : \A j \in 1..Len(sent[c2]) :
            (/\ sent[c1][i].type \in BroadcastTypes
             /\ sent[c2][j].type \in BroadcastTypes
             /\ sent[c1][i].of = sent[c2][j].of) => sent[c1][i] = sent[c2][j]
       /\ (\A m \in MsgIds : hist[m].bcast => {c1, c2} \subseteq hist[m].live)
            => BroadcastSeq(c1) = BroadcastSeq(c2)

\* two broadcasts of different kinds went to two connections that were open
\* at both
C19_Witness ==
  \E c1, c2 \in Clients :
    /\ c1 # c2
    /\ \A m \in MsgIds : hist[m].bcast /\ {c1, c2} \subseteq hist[m].live
    /\ Len(BroadcastSeq(c1)) = 2
    /\ BroadcastSeq(c1)[1].type # BroadcastSeq(c1)[2].type
    /\ BroadcastSeq(c2) = BroadcastSeq(c1)

\* this step registers a connection under a fresh id
Registers ==
  \E c \in Clients :
    /\ readyState[c] = "NONE"
    /\ c \notin Registered
    /\ wsClients' = Append(wsClients, c)

\* this step is the close or error event of a connection removing its own id
Unregisters ==
  \E c \in Clients :
    /\ readyState[c] = "CLOSED"
    /\ wsClients' = SelectSeq(wsClients, LAMBDA x : x # c)

\* C20 as stated: the registry changes only when a connection registers its
\* fresh id or a close/error event removes its own id; no step of message
\* handling or of a broadcast adds or removes an entry.
C20_RegistryOnlyByRegisterUnregister ==
  [][wsClients' # wsClients =>
       /\ handlers' = handlers
       /\ Registers \/ Unregisters]_vars

\* C20: the registry changes only when a connection registers its fresh id,
\* when a close/error event removes its own id, or when a broadcast drops the
\* entries whose socket is not OPEN; a broadcast removes exactly those and adds
\* none, and no other step of message handling changes the registry.
C20_RegistryChanges ==
  [][wsClients' # wsClients =>
       IF handlers' = handlers
       THEN Registers \/ Unregisters
       ELSE /\ \E m \in MsgIds : Broadcasts(m)
            /\ wsClients' = SelectSeq(wsClients, LAMBDA x : readyState[x] = "OPEN")]_vars

\* a broadcast has dropped the entry of a closed socket whose close event had
\* not run, and the sender's entry is still there
C20_Witness ==
  \E m \in MsgIds : \E c \in Clients :
    /\ hist[m].bcast
    /\ c \in hist[m].failed
    /\ c \notin Registered
    /\ readyState[c] = "CLOSED"
    /\ handlers[m].conn \in Registered

\* m passed its check and carries what its primary mutation needs
Mutating(m) ==
  /\ IsUpdate(m)
  /\ hist[m].read
  /\ ~Denied(m)
  /\ handlers[m].frame.type = "location_update" =>
       Has(handlers[m].frame, "latitude") /\ Has(handlers[m].frame, "longitude")

\* the primary mutation of m has been stored
Persisted(m) ==
  IF handlers[m].frame.type = "location_update"
  THEN hist[m].rows = 1
  ELSE "trip" \in hist[m].wrote

\* C21: closing a connection cancels none of its messages in flight: every
\* message that passed its check ends with its mutation stored and with one
\* broadcast message on each connection registered and OPEN at the broadcast,
\* whether or not its own connection is still open; and a connection whose
\* socket is no longer OPEN is handed no broadcast message any more.
C21_CloseCancelsNothing ==
  /\ [][\A c \in Clients : readyState[c] # "OPEN" =>
          SelectSeq(sent'[c], LAMBDA x : x.type \in BroadcastTypes)
            = SelectSeq(sent[c], LAMBDA x : x.type \in BroadcastTypes)]_vars
  /\ [](\A m \in MsgIds : (Mutating(m) /\ Done(m)) =>
          /\ Persisted(m)
          /\ hist[m].bcast
          /\ \A c \in Clients :
               Cardinality(MsgsOf(c, m)) = IF c \in hist[m].live THEN 1 ELSE 0)

\* the sender's socket closed and its close event ran while its location
\* update was in flight: the row is stored and the other connection got it
C21_Witness ==
  \E m \in MsgIds : \E c \in Clients :
    /\ handlers[m].frame.type = "location_update"
    /\ Mutating(m) /\ Done(m)
    /\ handlers[m].conn \notin hist[m].live
    /\ hist[m].failed = {}
    /\ c \in hist[m].live
    /\ TypedOf(c, m, "location_update") # {}
    /\ handlers[m].row \in locations

\* C22: authorization and mutation are atomic with respect to reassignment:
\* when the createLocation or the updateTrip of a message claiming driver D
\* writes, the stored trip's driverId equals D.
C22_DriverStillAssignedAtMutation ==
  [][\A m \in MsgIds :
       (RanOk(m, "createLocation") \/ (RanOk(m, "updateTrip") /\ handlers'[m].updated # NoTrip))
         => /\ trips[ClaimedTrip(m)] # NoTrip
            /\ trips[ClaimedTrip(m)].driverId = Claimed(m)]_vars

\* C23: every trip_status_update that passed its check has, once handled, an
\* observable outcome: a broadcast, or an 'error' to its sender; also when the
\* trip was deleted between the check and updateTrip.
C23_AuthorizedStatusHasOutcome ==
  \A m \in MsgIds :
    (/\ handlers[m].frame.type = "trip_status_update"
     /\ handlers[m].frame.payload
     /\ hist[m].read /\ ~Denied(m)
     /\ Done(m))
      => \/ hist[m].bcast
         \/ TypedOf(handlers[m].conn, m, "error") # {}

\* the trip_status_update messages handed to connection c, in order
StatusSeq(c) == SelectSeq(sent[c], LAMBDA x : x.type = "trip_status_update")

\* no handler is in flight
AllFinished == \A m \in MsgIds : handlers[m].pc \in {"none", "done"}

\* C24: once all handlers have finished, the last trip_status_update message
\* on every connection that is registered and OPEN carries the status stored
\* for the trip, and the vehicle's status matches it: in_use for in_progress,
\* available for completed or cancelled.
C24_LastBroadcastIsFinalState ==
  AllFinished =>
    \A c \in Live :
      StatusSeq(c) # <<>> =>
        LET last == StatusSeq(c)[Len(StatusSeq(c))].trip
        IN /\ last.status = trips[last.id].status
           /\ trips[last.id].status = "in_progress" => vehicles[last.vehicleId] = "in_use"
           /\ trips[last.id].status \in {"completed", "cancelled"} =>
                vehicles[last.vehicleId] = "available"

\* the secondary writes a message has made, by what it has written
WroteSecondary(m) == hist[m].wrote \ {"trip"}

\* C25: the secondary updates run in the order vehicle, driver, location
\* cleanup inside one try: what a message has written is a prefix of that
\* order, a call that threw is the last one made, and the broadcast follows
\* all the same; so when updateVehicle throws, neither the driver's status
\* nor the trip's rows are touched by the message, and the updated trip is
\* still broadcast.
C25_SideEffectsInOrder ==
  /\ [](\A m \in MsgIds : handlers[m].frame.type = "trip_status_update" =>
          /\ WroteSecondary(m) \in {{}, {"vehicle"}, {"vehicle", "user"},
                                    {"vehicle", "user", "locations"}}
          /\ WroteSecondary(m) # {} => "trip" \in hist[m].wrote
          /\ "updateVehicle" \in hist[m].threw =>
               /\ WroteSecondary(m) = {}
               /\ hist[m].threw = {"updateVehicle"}
               /\ Done(m) => hist[m].bcast
          /\ "updateUser" \in hist[m].threw =>
               /\ WroteSecondary(m) = {"vehicle"}
               /\ hist[m].threw = {"updateUser"}
               /\ Done(m) => hist[m].bcast
          /\ "deleteLocationsByTrip" \in hist[m].threw =>
               /\ WroteSecondary(m) = {"vehicle", "user"}
               /\ Done(m) => hist[m].bcast)
  /\ [][\A m \in MsgIds :
          (handlers'[m] # handlers[m] /\ "updateVehicle" \in hist[m].threw) =>
            UNCHANGED <<users, locations, vehicles>>]_vars

\* a started trip was completed and updateVehicle threw: the vehicle is still
\* in_use, the driver still on_trip, no cleanup ran, and the completed trip
\* was broadcast
C25_Witness ==
  \E m1, m2 \in MsgIds :
    /\ AuthorizedStatus(m1, "in_progress") /\ Done(m1)
    /\ hist[m1].wrote = {"trip", "vehicle", "user"}
    /\ AuthorizedStatus(m2, "completed") /\ Done(m2)
    /\ "updateVehicle" \in hist[m2].threw
    /\ hist[m2].wrote = {"trip"}
    /\ hist[m2].bcast
    /\ \A c \in hist[m2].live : TypedOf(c, m2, "trip_status_update") # {}
    /\ hist[m2].live # {}
    /\ vehicles["v1"] = "in_use"
    /\ users["d1"] = "on_trip"
    /\ trips["t1"].status = "completed"

\* m is an authorized trip_status_update that ends the trip
EndsTrip(m) == AuthorizedStatus(m, "completed") \/ AuthorizedStatus(m, "cancelled")

\* C26: cancelled triggers the same cleanup as completed: for both statuses
\* the handler, resumed after its updateUser succeeded, calls
\* deleteLocationsByTrip with the id of the trip it updated, and has made
\* that call by the time it finishes; a message to in_progress never calls it.
C26_CancelledCleansUpToo ==
  /\ [][\A m \in MsgIds :
          (/\ EndsTrip(m)
           /\ handlers[m].pc = "updateUser"
           /\ handlers[m].ret /\ ~handlers[m].exc
           /\ handlers'[m] # handlers[m])
            => /\ handlers'[m].pc = "deleteLocationsByTrip"
               /\ ~handlers'[m].ret
               /\ handlers'[m].updated.id = ClaimedTrip(m)]_vars
  /\ [](\A m \in MsgIds :
          /\ (EndsTrip(m) /\ Done(m)) => "locations" \in hist[m].wrote
          /\ AuthorizedStatus(m, "in_progress") =>
               /\ handlers[m].pc # "deleteLocationsByTrip"
               /\ "locations" \notin hist[m].wrote)

\* the handler of a cancelled trip that has a stored row is at its
\* deleteLocationsByTrip call
C26_Witness ==
  \E m1, m2 \in MsgIds :
    /\ Accepted(m1) /\ handlers[m1].row \in locations
    /\ AuthorizedStatus(m2, "cancelled")
    /\ handlers[m2].pc = "deleteLocationsByTrip"
    /\ handlers[m1].row.tripId = handlers[m2].updated.id
    /\ trips["t1"].status = "cancelled"

\* C27: whether a location_update is accepted does not depend on the trip's
\* status: resumed after getTrip, the handler goes on to createLocation
\* exactly when the trip exists, its driver is the claimed one and both
\* coordinates are there, whatever status the trip has; an accepted message
\* ends with its row stored and broadcast. So a completed trip whose rows
\* were deleted acquires new rows.
C27_LocationAcceptedInAnyStatus ==
  /\ [][\A m \in MsgIds :
          (handlers[m].frame.type = "location_update" /\ ResumesAfterGetTrip(m)) =>
            (handlers'[m].pc = "createLocation"
               <=> /\ handlers[m].trip # NoTrip
                   /\ handlers[m].trip.driverId = Claimed(m)
                   /\ Has(handlers[m].frame, "latitude")
                   /\ Has(handlers[m].frame, "longitude"))]_vars
  /\ [](\A m \in MsgIds : (Accepted(m) /\ Done(m)) =>
          /\ hist[m].bcast
          /\ \A c \in hist[m].live : TypedOf(c, m, "location_update") # {})

\* the trip was completed and its rows cleaned up; a location_update that
\* read the completed trip has stored a row of that trip and broadcast it
C27_Witness ==
  \E m1, m2 \in MsgIds :
    /\ AuthorizedStatus(m1, "completed") /\ Done(m1)
    /\ "locations" \in hist[m1].wrote
    /\ Accepted(m2) /\ Done(m2)
    /\ hist[m2].readTrip.status = "completed"
    /\ hist[m2].bcast /\ hist[m2].live # {}
    /\ handlers[m2].row \in locations
    /\ handlers[m2].row.tripId = "t1"
    /\ trips["t1"].status = "completed"

PendingTimers == {t \in TimerIds : timers[t] = "PENDING"}

\* C28: the hook keeps retrying: whenever one of its sockets closes while the
\* component is mounted, a reconnect is on its way afterwards (a reconnect
\* timer is pending, or a newer socket is already connecting or open), also
\* when the socket that closed was a reconnect attempt that never opened;
\* and at most one reconnect timer is pending at any time.
C28_HookKeepsRetrying ==
  /\ [][\A s \in SocketIds :
          (mounted = "mounted" /\ sockets[s] # "CLOSED" /\ sockets'[s] = "CLOSED") =>
            \/ \E t \in TimerIds : timers'[t] = "PENDING"
            \/ \E s2 \in SocketIds : sockets'[s2] \in {"CONNECTING", "OPEN"}]_vars
  /\ [](Cardinality(PendingTimers) <= 1)

\* C29: after the component has unmounted no reconnect timer is pending and
\* the hook creates no WebSocket any more, the onclose that the cleanup's own
\* close() brings about included.
C29_NothingAfterUnmount ==
  /\ [](mounted = "unmounted" => PendingTimers = {})
  /\ [][mounted = "unmounted" => nsockets' = nsockets]_vars

\* C30: emails stay unique under concurrent registration over MemStorage: no
\* two stored users share an email, and of the requests for one email at most
\* one is answered 201.
C30_EmailsStayUnique ==
  /\ \A u1, u2 \in accounts : u1.email = u2.email => u1 = u2
  /\ \A e \in Emails : Cardinality({r \in ReqIds : reqs[r].code = 201 /\ reqs[r].email = e}) <= 1

====
